---------------------------- MODULE Spec2Model ----------------------------
(***************************************************************************)
(* A model of the LaTeX checker (src/latex_checker.py) and of the request  *)
(* handler that calls it (src/app.py).                                     *)
(*                                                                         *)
(* A text is a sequence of one-character strings.  Offsets are 0-based as  *)
(* in the source: offset i of text t is t[i + 1].  A match or region is a  *)
(* pair <<start, end>>, half open.                                         *)
(***************************************************************************)
EXTENDS Integers, Sequences, FiniteSets, TLC

VARIABLES text, pc, masked, remasked, math_mask, regions, results, issues

vars == <<text, pc, masked, remasked, math_mask, regions, results, issues>>

(***************************************************************************)
(* Characters                                                              *)
(***************************************************************************)
BS == "\\"
NL == "\n"
CR == "\r"
TAB == "\t"
FF == "\f"
SP == " "

\* The characters written with a code point are those the source writes
\* outside ASCII.
RDQUO == "U+201D"
RSQUO == "U+2019"
LDQUO == "U+201C"
LSQUO == "U+2018"
OPENBOX == "U+2423"

Digits == {"0", "1", "2", "3", "4", "5", "6", "7", "8", "9"}

UpperLetters ==
    {"A", "B", "C", "D", "E", "F", "G", "H", "I", "J", "K", "L", "M",
     "N", "O", "P", "Q", "R", "S", "T", "U", "V", "W", "X", "Y", "Z"}

LowerLetters ==
    {"a", "b", "c", "d", "e", "f", "g", "h", "i", "j", "k", "l", "m",
     "n", "o", "p", "q", "r", "s", "t", "u", "v", "w", "x", "y", "z"}

\* \w and \s of the regular expressions, among the ASCII characters
WordChars == UpperLetters \cup LowerLetters \cup Digits \cup {"_"}

Whitespace == {SP, TAB, NL, CR, FF}

\* offset i of text t
Ch(t, i) == t[i + 1]

(***************************************************************************)
(* The delimiter patterns                                                  *)
(***************************************************************************)
MATH_ENVS ==
    << <<"a", "r", "r", "a", "y">>,
       <<"a", "l", "i", "g", "n">>,
       <<"a", "l", "i", "g", "n", "*">>,
       <<"g", "a", "t", "h", "e", "r">>,
       <<"g", "a", "t", "h", "e", "r", "*">> >>

\* One alternative per environment name, in the order of the alternation;
\* the back-reference makes the closing tag name the same environment.
ENV_PATTERN ==
    [k \in 1..Len(MATH_ENVS) |->
        [open   |-> <<BS, "b", "e", "g", "i", "n", "{">> \o MATH_ENVS[k] \o <<"}">>,
         close  |-> <<BS, "e", "n", "d", "{">> \o MATH_ENVS[k] \o <<"}">>,
         notnext |-> {}]]

\* A pattern is a sequence of alternatives open .*? close (DOTALL); notnext
\* is the set of characters a negative lookahead forbids after open.
MATH_PATTERNS ==
    << << [open |-> <<"$", "$">>, close |-> <<"$", "$">>, notnext |-> {}] >>,
       << [open |-> <<BS, "[">>, close |-> <<BS, "]">>, notnext |-> {}] >>,
       << [open |-> <<BS, "(">>, close |-> <<BS, ")">>, notnext |-> {}] >>,
       ENV_PATTERN,
       << [open |-> <<"$">>, close |-> <<"$">>, notnext |-> {"$"}] >> >>

\* the literal lit stands at offset i of w
LooksAt(w, i, lit) ==
    /\ i + Len(lit) <= Len(w)
    /\ \A k \in 1..Len(lit) : w[i + k] = lit[k]

\* the least offset >= i where lit stands, or -1
RECURSIVE FirstAt(_, _, _)
FirstAt(w, i, lit) ==
    IF i + Len(lit) > Len(w) THEN -1
    ELSE IF LooksAt(w, i, lit) THEN i
    ELSE FirstAt(w, i + 1, lit)

\* the end of the match of one alternative starting at offset s, or -1:
\* .*? stops at the first closing delimiter
AltMatchEnd(w, s, alt) ==
    LET after == s + Len(alt.open)
    IN  IF ~LooksAt(w, s, alt.open) THEN -1
        ELSE IF after < Len(w) /\ Ch(w, after) \in alt.notnext THEN -1
        ELSE LET c == FirstAt(w, after, alt.close)
             IN  IF c < 0 THEN -1 ELSE c + Len(alt.close)

\* the end of the pattern's match starting at offset s, or -1: the
\* alternatives are tried in order
RECURSIVE MatchEndFrom(_, _, _, _)
MatchEndFrom(w, s, pattern, k) ==
    IF k > Len(pattern) THEN -1
    ELSE LET e == AltMatchEnd(w, s, pattern[k])
         IN  IF e >= 0 THEN e ELSE MatchEndFrom(w, s, pattern, k + 1)

\* pattern.finditer(w), from offset pos on: the non-overlapping matches,
\* left to right
RECURSIVE FindIter(_, _, _)
FindIter(pattern, w, pos) ==
    IF pos >= Len(w) THEN <<>>
    ELSE LET e == MatchEndFrom(w, pos, pattern, 1)
         IN  IF e >= 0 THEN << <<pos, e>> >> \o FindIter(pattern, w, e)
             ELSE FindIter(pattern, w, pos + 1)

\* offset i lies in one of the matches
Covered(ms, i) == \E k \in 1..Len(ms) : ms[k][1] <= i /\ i < ms[k][2]

\* A faulty Blank, which leaves the working copy as it was, so that later
\* patterns see inside earlier regions: C3 does not hold of it.
BlankNothing(chars, ms) == chars

\* chars after the matches ms were overwritten with spaces, newlines kept
Blank(chars, ms) ==
    [i \in 1..Len(chars) |->
        IF Covered(ms, i - 1) /\ chars[i] # NL THEN SP ELSE chars[i]]

RECURSIVE MaskFrom(_, _)
MaskFrom(k, work_text) ==
    IF k > Len(MATH_PATTERNS) THEN work_text
    ELSE MaskFrom(k + 1, Blank(work_text, FindIter(MATH_PATTERNS[k], work_text, 0)))

mask_math_regions(t) == MaskFrom(1, t)

\* A faulty MathMaskFrom, which sets the mask under the newline test of the
\* overwrite: C8 does not hold of it.
RECURSIVE MathMaskFromSkippingNewlines(_, _, _)
MathMaskFromSkippingNewlines(k, work_text, mask) ==
    IF k > Len(MATH_PATTERNS) THEN mask
    ELSE LET ms == FindIter(MATH_PATTERNS[k], work_text, 0)
         IN  MathMaskFromSkippingNewlines(k + 1, Blank(work_text, ms),
                 [i \in 1..Len(mask) |->
                     mask[i] \/ (Covered(ms, i - 1) /\ work_text[i] # NL)])

RECURSIVE MathMaskFrom(_, _, _)
MathMaskFrom(k, work_text, mask) ==
    IF k > Len(MATH_PATTERNS) THEN mask
    ELSE LET ms == FindIter(MATH_PATTERNS[k], work_text, 0)
         IN  MathMaskFrom(k + 1, Blank(work_text, ms),
                          [i \in 1..Len(mask) |-> mask[i] \/ Covered(ms, i - 1)])

get_math_mask(t) == MathMaskFrom(1, t, [i \in 1..Len(t) |-> FALSE])

RECURSIVE RegionsFrom(_, _)
RegionsFrom(k, work_text) ==
    IF k > Len(MATH_PATTERNS) THEN <<>>
    ELSE LET ms == FindIter(MATH_PATTERNS[k], work_text, 0)
         IN  ms \o RegionsFrom(k + 1, Blank(work_text, ms))

get_math_regions(t) == RegionsFrom(1, t)

\* the regions of get_math_regions, each with the rank of the pattern whose
\* iteration of the loop appended it
RECURSIVE RankedRegionsFrom(_, _)
RankedRegionsFrom(k, work_text) ==
    IF k > Len(MATH_PATTERNS) THEN <<>>
    ELSE LET ms == FindIter(MATH_PATTERNS[k], work_text, 0)
         IN  [n \in 1..Len(ms) |-> [pattern |-> k, start |-> ms[n][1], end |-> ms[n][2]]]
             \o RankedRegionsFrom(k + 1, Blank(work_text, ms))

RankedRegions(t) == RankedRegionsFrom(1, t)

(***************************************************************************)
(* Line index                                                              *)
(***************************************************************************)
RECURSIVE LineStartsFrom(_, _)
LineStartsFrom(t, i) ==
    IF i >= Len(t) THEN <<>>
    ELSE (IF Ch(t, i) = NL THEN <<i + 1>> ELSE <<>>) \o LineStartsFrom(t, i + 1)

build_line_starts(t) == <<0>> \o LineStartsFrom(t, 0)

\* bisect_right on the sorted line_starts: the number of entries <= idx
bisect_right(line_starts, idx) ==
    Cardinality({k \in 1..Len(line_starts) : line_starts[k] <= idx})

index_to_line_col(idx, line_starts) ==
    LET line_index == bisect_right(line_starts, idx) - 1
        line_start == line_starts[line_index + 1]
    IN  [line |-> line_index + 1, col |-> idx - line_start + 1]

\* the line boundaries of str.splitlines among the characters of the model
LineBreaks == {NL, CR, FF}

\* str.splitlines(): \r\n is one boundary, and no empty last line
RECURSIVE SplitLinesFrom(_, _, _)
SplitLinesFrom(t, i, cur) ==
    IF i >= Len(t) THEN (IF cur = <<>> THEN <<>> ELSE <<cur>>)
    ELSE IF Ch(t, i) = CR /\ i + 1 < Len(t) /\ Ch(t, i + 1) = NL
         THEN <<cur>> \o SplitLinesFrom(t, i + 2, <<>>)
    ELSE IF Ch(t, i) \in LineBreaks
         THEN <<cur>> \o SplitLinesFrom(t, i + 1, <<>>)
    ELSE SplitLinesFrom(t, i + 1, Append(cur, Ch(t, i)))

splitlines(t) == SplitLinesFrom(t, 0, <<>>)

\* the record every detector builds for offset idx of t
Issue(t, kind, idx, char) ==
    LET lc == index_to_line_col(idx, build_line_starts(t))
        lines == splitlines(t)
    IN  [kind |-> kind, index |-> idx, line |-> lc.line, col |-> lc.col,
         char |-> char,
         line_text |-> IF 1 <= lc.line /\ lc.line <= Len(lines)
                       THEN lines[lc.line] ELSE <<>>]

\* the offsets of the set S in ascending order: the order of a left to
\* right scan
RECURSIVE Ascending(_)
Ascending(S) ==
    IF S = {} THEN <<>>
    ELSE LET m == CHOOSE x \in S : \A y \in S : x <= y
         IN  <<m>> \o Ascending(S \ {m})

Offsets(t) == 0..(Len(t) - 1)

(***************************************************************************)
(* Detectors                                                               *)
(***************************************************************************)
\* A faulty find_digits_outside_math, which scans the text instead of the
\* masked text: C2 does not hold of it.
find_digits_unmasked(t) ==
    LET at == Ascending({i \in Offsets(t) : Ch(t, i) \in Digits})
    IN  [k \in 1..Len(at) |-> Issue(t, "digit", at[k], Ch(t, at[k]))]

find_digits_outside_math(t) ==
    LET m == mask_math_regions(t)
        at == Ascending({i \in Offsets(m) : Ch(m, i) \in Digits})
    IN  [k \in 1..Len(at) |-> Issue(t, "digit", at[k], Ch(m, at[k]))]

\* [B-HJ-Zb-hj-z]
SingleLetters == (UpperLetters \cup LowerLetters) \ {"A", "I", "a", "i"}

\* [\s\.,;:!?]
AfterLetter == Whitespace \cup {".", ",", ";", ":", "!", "?"}

\* \b([B-HJ-Zb-hj-z])\b(?=[\s\.,;:!?]) matches at offset i of m
SingleLetterAt(m, i) ==
    /\ Ch(m, i) \in SingleLetters
    /\ (i = 0 \/ Ch(m, i - 1) \notin WordChars)
    /\ (i + 1 = Len(m) \/ Ch(m, i + 1) \notin WordChars)
    /\ i + 1 < Len(m)
    /\ Ch(m, i + 1) \in AfterLetter

find_single_letters_outside_math(t) ==
    LET m == mask_math_regions(t)
        at == Ascending({i \in Offsets(m) : SingleLetterAt(m, i)})
    IN  [k \in 1..Len(at) |-> Issue(t, "letter", at[k], Ch(m, at[k]))]

\* A faulty scan, which advances by one after a hit, so that pairs
\* overlap: C9 does not hold of it.
RECURSIVE DoubleBackslashesOverlapping(_, _)
DoubleBackslashesOverlapping(t, i) ==
    IF ~(i < Len(t) - 1) THEN <<>>
    ELSE IF Ch(t, i) = BS /\ Ch(t, i + 1) = BS
         THEN LET issue == Issue(t, "backslash", i, <<BS, BS>>)
              IN  <<[kind |-> issue.kind, index |-> issue.index,
                     line |-> issue.line, col |-> issue.col,
                     char |-> issue.char, line_text |-> issue.line_text,
                     length |-> 2]>>
                  \o DoubleBackslashesOverlapping(t, i + 1)
    ELSE DoubleBackslashesOverlapping(t, i + 1)

\* the scan of find_double_backslashes from offset i on
RECURSIVE DoubleBackslashesFrom(_, _)
DoubleBackslashesFrom(t, i) ==
    IF ~(i < Len(t) - 1) THEN <<>>
    ELSE IF Ch(t, i) = BS /\ Ch(t, i + 1) = BS
         THEN LET issue == Issue(t, "backslash", i, <<BS, BS>>)
              IN  <<[kind |-> issue.kind, index |-> issue.index,
                     line |-> issue.line, col |-> issue.col,
                     char |-> issue.char, line_text |-> issue.line_text,
                     length |-> 2]>>
                  \o DoubleBackslashesFrom(t, i + 2)
    ELSE DoubleBackslashesFrom(t, i + 1)

find_double_backslashes(t) == DoubleBackslashesFrom(t, 0)

Punctuation == {".", ",", ";", ":", "!", "?"}

ClosingChars == {"\"", ")", "'", "]", "}", ">", RDQUO, RSQUO}

\* A faulty SkipClosing, which skips nothing: C6 does not hold of it.
SkipNothing(t, j) == j

\* the offset find_spacing_around_punctuation stops at after skipping the
\* closing characters from offset j on
RECURSIVE SkipClosing(_, _)
SkipClosing(t, j) ==
    IF j < Len(t) /\ Ch(t, j) \in ClosingChars THEN SkipClosing(t, j + 1) ELSE j

\* A faulty BadPunctuationSpacing, which does not test the math mask: C10
\* does not hold of it.
BadPunctuationSpacingInMath(t, mask, idx) ==
    LET has_space_before == idx > 0 /\ Ch(t, idx - 1) = SP
        j == SkipClosing(t, idx + 1)
        missing_space_after == j < Len(t) /\ Ch(t, j) \notin {SP, TAB, NL, CR}
    IN  /\ Ch(t, idx) \in Punctuation
        /\ (has_space_before \/ missing_space_after)

\* find_spacing_around_punctuation reports offset idx
BadPunctuationSpacing(t, mask, idx) ==
    LET has_space_before == idx > 0 /\ Ch(t, idx - 1) = SP
        j == SkipClosing(t, idx + 1)
        missing_space_after == j < Len(t) /\ Ch(t, j) \notin {SP, TAB, NL, CR}
    IN  /\ Ch(t, idx) \in Punctuation
        /\ ~(idx < Len(mask) /\ mask[idx + 1])
        /\ (has_space_before \/ missing_space_after)

find_spacing_around_punctuation(t) ==
    LET mask == get_math_mask(t)
        at == Ascending({i \in Offsets(t) : BadPunctuationSpacing(t, mask, i)})
    IN  [k \in 1..Len(at) |-> Issue(t, "spacing", at[k], Ch(t, at[k]))]

\* the group kind a character opens or closes in find_commas_colons_inside_math
Opens(t, i) ==
    IF Ch(t, i) = "{" /\ i > 0 /\ Ch(t, i - 1) = BS THEN "brace"
    ELSE IF Ch(t, i) = "(" THEN "paren"
    ELSE IF Ch(t, i) = "[" THEN "bracket"
    ELSE "none"

Closes(t, i) ==
    IF Opens(t, i) # "none" THEN "none"
    ELSE IF Ch(t, i) = "}" /\ i > 0 /\ Ch(t, i - 1) = BS THEN "brace"
    ELSE IF Ch(t, i) = ")" THEN "paren"
    ELSE IF Ch(t, i) = "]" THEN "bracket"
    ELSE "none"

\* the stack after the character at offset i was looked at
StackAfter(t, i, stack) ==
    IF Opens(t, i) # "none" THEN Append(stack, Opens(t, i))
    ELSE IF Closes(t, i) # "none" /\ stack # <<>> /\ stack[Len(stack)] = Closes(t, i)
         THEN SubSeq(stack, 1, Len(stack) - 1)
    ELSE stack

\* the scan of one region from offset i to end
RECURSIVE ScanRegion(_, _, _, _)
ScanRegion(t, i, end, stack) ==
    IF ~(i < end) THEN <<>>
    ELSE LET st == StackAfter(t, i, stack)
         IN  (IF Ch(t, i) \in {",", ":"} /\ st = <<>>
              THEN <<Issue(t, "punct", i, Ch(t, i))>> ELSE <<>>)
             \o ScanRegion(t, i + 1, end, st)

RECURSIVE ScanRegions(_, _, _)
ScanRegions(t, math_regions, k) ==
    IF k > Len(math_regions) THEN <<>>
    ELSE ScanRegion(t, math_regions[k][1], math_regions[k][2], <<>>)
         \o ScanRegions(t, math_regions, k + 1)

find_commas_colons_inside_math(t) == ScanRegions(t, get_math_regions(t), 1)

LeftDelims == {"(", "[", "\"", LDQUO, LSQUO}

RightDelims == {")", "]", "\"", RDQUO, RSQUO}

\* find_spacing_inside_delimiters reports offset idx
BadDelimiterSpacing(t, mask, idx) ==
    /\ Ch(t, idx) = SP
    /\ ~(idx < Len(mask) /\ mask[idx + 1])
    /\ \/ idx > 0 /\ Ch(t, idx - 1) \in LeftDelims
       \/ idx + 1 < Len(t) /\ Ch(t, idx + 1) \in RightDelims

find_spacing_inside_delimiters(t) ==
    LET mask == get_math_mask(t)
        at == Ascending({i \in Offsets(t) : BadDelimiterSpacing(t, mask, i)})
    IN  [k \in 1..Len(at) |-> Issue(t, "spacing", at[k], OPENBOX)]

(***************************************************************************)
(* Aggregation                                                             *)
(***************************************************************************)
\* the six detectors' outputs, concatenated in the order analyze_text runs them
AllIssues(t) ==
    find_digits_outside_math(t)
    \o find_single_letters_outside_math(t)
    \o find_commas_colons_inside_math(t)
    \o find_spacing_around_punctuation(t)
    \o find_spacing_inside_delimiters(t)
    \o find_double_backslashes(t)

\* A faulty Unique, which never finds a key seen: C1 does not hold of it.
UniqueKeepAll(all, k, seen) == SubSeq(all, k, Len(all))

\* the first issue of each (kind, index), in the order met
RECURSIVE Unique(_, _, _)
Unique(all, k, seen) ==
    IF k > Len(all) THEN <<>>
    ELSE LET key == <<all[k].kind, all[k].index>>
         IN  IF key \in seen THEN Unique(all, k + 1, seen)
             ELSE <<all[k]>> \o Unique(all, k + 1, seen \cup {key})

\* issue x put into the list sorted by index, after the entries with the
\* same index: list.sort is stable
RECURSIVE InsertByIndex(_, _)
InsertByIndex(sorted, x) ==
    IF sorted = <<>> THEN <<x>>
    ELSE IF sorted[Len(sorted)].index <= x.index THEN Append(sorted, x)
    ELSE Append(InsertByIndex(SubSeq(sorted, 1, Len(sorted) - 1), x),
                sorted[Len(sorted)])

RECURSIVE SortByIndex(_, _)
SortByIndex(list, k) ==
    IF k = 0 THEN <<>>
    ELSE InsertByIndex(SortByIndex(list, k - 1), list[k])

analyze_text(t) ==
    LET unique == Unique(AllIssues(t), 1, {})
    IN  SortByIndex(unique, Len(unique))

(***************************************************************************)
(* Inputs                                                                  *)
(***************************************************************************)
MaxFragments == 4

MaxChars == 6

\* the texts made of at most n fragments
RECURSIVE TextsUpTo(_, _)
TextsUpTo(fragments, n) ==
    IF n = 0 THEN {<<>>}
    ELSE LET shorter == TextsUpTo(fragments, n - 1)
         IN  shorter \cup {t \o f : t \in shorter, f \in fragments}

\* prose with inline math and a display formula
Fragments ==
    { <<"$">>, <<",">>, <<"1">>, <<"x">>, <<SP>>, <<"$", "$", ",", "$", "$">> }

\* math delimiters, a newline and an environment
MathFragments ==
    { <<"$">>, <<BS, "[">>, <<BS, "]">>, <<NL>>,
      <<BS, "b", "e", "g", "i", "n", "{", "a", "l", "i", "g", "n", "}">>,
      <<BS, "e", "n", "d", "{", "a", "l", "i", "g", "n", "}">> }

\* punctuation and groupings in math
PunctFragments ==
    { <<"$">>, <<BS, "[">>, <<BS, "]">>, <<",">>, <<"(">>, <<")">> }

\* sentence punctuation
SpacingFragments == { <<".">>, <<SP>>, <<")">>, <<"'">>, <<"$">>, <<"a">> }

\* line boundaries
LineFragments == { <<"1">>, <<NL>>, <<CR>>, <<"a">> }

\* math nested in math, a line break marker, prose
AggregateFragments ==
    { <<"$">>, <<BS, BS>>, <<",">>, <<"1">>, <<SP>>, <<"$", "$", ",", "$", "$">> }

DollarChars == { <<"$">>, <<NL>>, <<"a">> }

BackslashChars == { <<BS>>, <<"$">>, <<"a">> }

Start(texts) ==
    /\ text \in texts
    /\ pc = "start"
    /\ masked = <<>>
    /\ remasked = <<>>
    /\ math_mask = <<>>
    /\ regions = <<>>
    /\ results = <<>>
    /\ issues = <<>>

Init == Start(TextsUpTo(Fragments, MaxFragments))

InitMath == Start(TextsUpTo(MathFragments, MaxFragments))

InitPunct == Start(TextsUpTo(PunctFragments, MaxFragments))

InitSpacing == Start(TextsUpTo(SpacingFragments, MaxFragments))

InitLines == Start(TextsUpTo(LineFragments, MaxFragments))

InitAggregate == Start(TextsUpTo(AggregateFragments, MaxFragments))

InitDollars == Start(TextsUpTo(DollarChars, MaxChars))

InitBackslashes == Start(TextsUpTo(BackslashChars, MaxChars))

MaskMathRegions ==
    /\ pc = "start"
    /\ masked' = mask_math_regions(text)
    /\ pc' = "mask_math_regions"
    /\ UNCHANGED <<text, remasked, math_mask, regions, results, issues>>

MaskAgain ==
    /\ pc = "mask_math_regions"
    /\ remasked' = mask_math_regions(masked)
    /\ pc' = "masked_twice"
    /\ UNCHANGED <<text, masked, math_mask, regions, results, issues>>

GetMathMask ==
    /\ pc = "start"
    /\ math_mask' = get_math_mask(text)
    /\ pc' = "get_math_mask"
    /\ UNCHANGED <<text, masked, remasked, regions, results, issues>>

GetMathRegions ==
    /\ pc = "start"
    /\ regions' = get_math_regions(text)
    /\ pc' = "get_math_regions"
    /\ UNCHANGED <<text, masked, remasked, math_mask, results, issues>>

FindDigitsOutsideMath ==
    /\ pc = "start"
    /\ results' = find_digits_outside_math(text)
    /\ pc' = "find_digits_outside_math"
    /\ UNCHANGED <<text, masked, remasked, math_mask, regions, issues>>

FindSingleLettersOutsideMath ==
    /\ pc = "start"
    /\ results' = find_single_letters_outside_math(text)
    /\ pc' = "find_single_letters_outside_math"
    /\ UNCHANGED <<text, masked, remasked, math_mask, regions, issues>>

FindCommasColonsInsideMath ==
    /\ pc = "start"
    /\ results' = find_commas_colons_inside_math(text)
    /\ pc' = "find_commas_colons_inside_math"
    /\ UNCHANGED <<text, masked, remasked, math_mask, regions, issues>>

FindSpacingAroundPunctuation ==
    /\ pc = "start"
    /\ results' = find_spacing_around_punctuation(text)
    /\ pc' = "find_spacing_around_punctuation"
    /\ UNCHANGED <<text, masked, remasked, math_mask, regions, issues>>

FindSpacingInsideDelimiters ==
    /\ pc = "start"
    /\ results' = find_spacing_inside_delimiters(text)
    /\ pc' = "find_spacing_inside_delimiters"
    /\ UNCHANGED <<text, masked, remasked, math_mask, regions, issues>>

FindDoubleBackslashes ==
    /\ pc = "start"
    /\ results' = find_double_backslashes(text)
    /\ pc' = "find_double_backslashes"
    /\ UNCHANGED <<text, masked, remasked, math_mask, regions, issues>>

\* the POST branch of index(): the submitted text is analysed
AnalyzeText ==
    /\ pc = "start"
    /\ issues' = analyze_text(text)
    /\ pc' = "analyze_text"
    /\ UNCHANGED <<text, masked, remasked, math_mask, regions, results>>

\* the math region detector
NextMath ==
    \/ MaskMathRegions
    \/ MaskAgain
    \/ GetMathMask
    \/ GetMathRegions

\* the detectors and the aggregator
NextDetect ==
    \/ FindDigitsOutsideMath
    \/ FindSingleLettersOutsideMath
    \/ FindCommasColonsInsideMath
    \/ FindSpacingAroundPunctuation
    \/ FindSpacingInsideDelimiters
    \/ FindDoubleBackslashes
    \/ AnalyzeText

Next == NextMath \/ NextDetect

Spec == Init /\ [][Next]_vars

SpecMath == InitMath /\ [][NextMath]_vars

SpecDollars == InitDollars /\ [][NextMath]_vars

SpecPunct == InitPunct /\ [][NextDetect]_vars

SpecSpacing == InitSpacing /\ [][NextDetect]_vars

SpecAggregate == InitAggregate /\ [][NextDetect]_vars

SpecLines == InitLines /\ [][NextDetect]_vars

SpecBackslashes == InitBackslashes /\ [][NextDetect]_vars

(***************************************************************************)
(* Properties                                                              *)
(***************************************************************************)
Keys(list) == {<<list[k].kind, list[k].index>> : k \in 1..Len(list)}

HasDuplicate(list) ==
    \E j, k \in 1..Len(list) :
        j < k /\ list[j].kind = list[k].kind /\ list[j].index = list[k].index

\* C1: the list analyze_text returns is sorted by ascending index and holds
\* no two issues with the same (kind, index); it holds one issue for every
\* (kind, index) a detector reported.
C1_SortedAndDeduplicated ==
    pc = "analyze_text" =>
        /\ \A j, k \in 1..Len(issues) : j < k => issues[j].index <= issues[k].index
        /\ ~HasDuplicate(issues)
        /\ Keys(issues) = Keys(AllIssues(text))

\* the detectors' concatenated output was neither sorted nor free of
\* duplicates
C1_Witness ==
    /\ pc = "analyze_text"
    /\ Len(issues) >= 2
    /\ LET all == AllIssues(text)
       IN  /\ HasDuplicate(all)
           /\ \E j, k \in 1..Len(all) : j < k /\ all[j].index > all[k].index

\* C2: no digit or letter issue lies inside a range of get_math_regions,
\* and every punct issue lies inside one; of a detector's output and of the
\* aggregated list alike.
C2_NoCrossContamination ==
    LET math_regions == get_math_regions(text)
    IN  \A list \in {results, issues} :
            \A k \in 1..Len(list) :
                /\ list[k].kind \in {"digit", "letter"} =>
                       ~Covered(math_regions, list[k].index)
                /\ list[k].kind = "punct" =>
                       Covered(math_regions, list[k].index)

\* a digit outside math is reported while a digit inside math is not
C2_Witness ==
    /\ pc = "analyze_text"
    /\ \E k \in 1..Len(issues) : issues[k].kind = "digit"
    /\ \E i \in Offsets(text) :
          Ch(text, i) \in Digits /\ Covered(get_math_regions(text), i)

\* list holds the ranges of ranked, in the same order
SameRanges(list, ranked) ==
    list = [n \in 1..Len(ranked) |-> <<ranked[n].start, ranked[n].end>>]

Disjoint(a, b) == a.end <= b.start \/ b.end <= a.start

\* C3 as stated: two ranges of get_math_regions that different patterns
\* produced are disjoint.
C3_DifferentPatternsDisjoint ==
    pc = "get_math_regions" =>
        LET ranked == RankedRegions(text)
        IN  /\ SameRanges(regions, ranked)
            /\ \A a, b \in 1..Len(ranked) :
                   ranked[a].pattern < ranked[b].pattern
                       => Disjoint(ranked[a], ranked[b])

\* C3 as amended: two ranges that different patterns produced are disjoint,
\* or the later pattern's range strictly contains the earlier pattern's
\* range; a later pattern's range never starts or ends inside an earlier
\* pattern's range.
C3_DisjointOrNested ==
    pc = "get_math_regions" =>
        LET ranked == RankedRegions(text)
        IN  /\ SameRanges(regions, ranked)
            /\ \A a, b \in 1..Len(ranked) :
                   ranked[a].pattern < ranked[b].pattern
                       => \/ Disjoint(ranked[a], ranked[b])
                          \/ /\ ranked[b].start < ranked[a].start
                             /\ ranked[a].end < ranked[b].end

\* a later pattern's range contains an earlier pattern's range
C3_Witness ==
    /\ pc = "get_math_regions"
    /\ \E j, k \in 1..Len(regions) :
          /\ j < k
          /\ regions[k][1] < regions[j][1]
          /\ regions[j][2] < regions[k][2]

\* C4 as stated: masking the masked text again changes nothing.
C4_MaskIdempotent ==
    pc = "masked_twice" => remasked = masked

\* the stack of open groupings at offset i of a math content that starts
\* at offset from, behind the region's opening delimiter
RECURSIVE ContentStack(_, _, _, _)
ContentStack(t, from, i, stack) ==
    IF from > i THEN stack
    ELSE ContentStack(t, from + 1, i, StackAfter(t, from, stack))

\* the length of the opening delimiter of a region of pattern k
OpenLen(t, k, start) ==
    LET alt == CHOOSE alt \in {MATH_PATTERNS[k][n] : n \in 1..Len(MATH_PATTERNS[k])} :
                   LooksAt(t, start, alt.open)
    IN  Len(alt.open)

Reported(list, i) == \E k \in 1..Len(list) : list[k].index = i

\* C5 as stated: in every math region, of whatever delimiter kind, a comma
\* or colon of the math content is reported exactly when no grouping of the
\* content encloses it.
C5_UngroupedPunctuationReported ==
    pc = "find_commas_colons_inside_math" =>
        LET ranked == RankedRegions(text)
        IN  \A n \in 1..Len(ranked) :
                LET content == ranked[n].start
                                   + OpenLen(text, ranked[n].pattern, ranked[n].start)
                IN  \A i \in content..(ranked[n].end - 1) :
                        Ch(text, i) \in {",", ":"} =>
                            (Reported(results, i)
                                <=> ContentStack(text, content, i, <<>>) = <<>>)

MathOffsets(t) ==
    LET math_regions == get_math_regions(t)
    IN  {i \in Offsets(t) : Covered(math_regions, i)}

\* the offset of the first character behind offset i that is not one of
\* closers, or the length of t
BehindClosers(t, i, closers) ==
    CHOOSE j \in (i + 1)..Len(t) :
        /\ \A m \in (i + 1)..(j - 1) : Ch(t, m) \in closers
        /\ j = Len(t) \/ Ch(t, j) \notin closers

\* the closing characters C6 lists
ClosersAsStated == {"\"", ")", "]", "}", ">", RDQUO, RSQUO}

\* C6 as stated: an offset is reported exactly when it holds a punctuation
\* character outside math that follows a space, or that is followed, behind
\* the closing characters, by a character that is neither whitespace nor
\* punctuation.
C6_SpacingAsStated ==
    pc = "find_spacing_around_punctuation" =>
        \A i \in Offsets(text) :
            Reported(results, i) <=>
                /\ Ch(text, i) \in Punctuation
                /\ i \notin MathOffsets(text)
                /\ \/ i > 0 /\ Ch(text, i - 1) = SP
                   \/ LET j == BehindClosers(text, i, ClosersAsStated)
                      IN  /\ j < Len(text)
                          /\ Ch(text, j) \notin Whitespace
                          /\ Ch(text, j) \notin Punctuation

\* C6 as amended: the closing characters skipped include the apostrophe,
\* and the character behind them counts as a missing space whenever it is
\* not a blank, tab, newline or carriage return, punctuation included.
C6_SpacingAmended ==
    pc = "find_spacing_around_punctuation" =>
        /\ \A k \in 1..Len(results) : results[k].kind = "spacing"
        /\ \A i \in Offsets(text) :
              Reported(results, i) <=>
                  /\ Ch(text, i) \in Punctuation
                  /\ i \notin MathOffsets(text)
                  /\ \/ i > 0 /\ Ch(text, i - 1) = SP
                     \/ LET j == BehindClosers(text, i, ClosersAsStated \cup {"'"})
                        IN  /\ j < Len(text)
                            /\ Ch(text, j) \notin {SP, TAB, NL, CR}

\* a punctuation character that follows no space and is directly followed
\* by punctuation is reported, and one followed by an apostrophe and the
\* end of the text is not
C6_Witness ==
    /\ pc = "find_spacing_around_punctuation"
    /\ \E i \in Offsets(text) :
          /\ Reported(results, i)
          /\ ~(i > 0 /\ Ch(text, i - 1) = SP)
          /\ i + 1 < Len(text)
          /\ Ch(text, i + 1) \in Punctuation
    /\ \E i \in Offsets(text) :
          /\ ~Reported(results, i)
          /\ Ch(text, i) \in Punctuation
          /\ i + 2 = Len(text)
          /\ Ch(text, i + 1) = "'"

IsLineStart(t, s) == s = 0 \/ Ch(t, s - 1) = NL

\* C7 as stated: line counts the line starts up to index, col is the
\* distance from the line start plus one, and line_text is the text from
\* that line start to the next newline or the end.
C7_LineColAndLineText ==
    \A list \in {results, issues} :
        \A k \in 1..Len(list) :
            LET i == list[k].index
                start == CHOOSE s \in 0..i :
                             /\ IsLineStart(text, s)
                             /\ \A s2 \in (s + 1)..i : ~IsLineStart(text, s2)
                stop == CHOOSE e \in start..Len(text) :
                            /\ e = Len(text) \/ Ch(text, e) = NL
                            /\ \A m \in start..(e - 1) : Ch(text, m) # NL
            IN  /\ list[k].line = 1 + Cardinality({s \in 1..i : IsLineStart(text, s)})
                /\ list[k].col = i - start + 1
                /\ list[k].line_text = SubSeq(text, start + 1, stop)

\* C8: get_math_mask holds at an offset exactly when the offset lies in a
\* range of get_math_regions.
C8_MaskAgreesWithRegions ==
    pc = "get_math_mask" =>
        /\ Len(math_mask) = Len(text)
        /\ {i \in Offsets(text) : math_mask[i + 1]} = MathOffsets(text)

\* the mask holds at a newline inside math and does not hold somewhere else
C8_Witness ==
    /\ pc = "get_math_mask"
    /\ \E i \in Offsets(text) : math_mask[i + 1] /\ Ch(text, i) = NL
    /\ \E i \in Offsets(text) : ~math_mask[i + 1]

\* a maximal run of backslashes starts at offset i
RunStart(t, i) == Ch(t, i) = BS /\ (i = 0 \/ Ch(t, i - 1) # BS)

RunLen(t, i) ==
    CHOOSE n \in 1..(Len(t) - i) :
        /\ \A m \in i..(i + n - 1) : Ch(t, m) = BS
        /\ i + n = Len(t) \/ Ch(t, i + n) # BS

\* the 1st, 3rd, 5th, ... backslash of every run, floor(k/2) per run of k
PairStarts(t) ==
    UNION { {s + 2 * j : j \in 0..((RunLen(t, s) \div 2) - 1)} :
            s \in {i \in Offsets(t) : RunStart(t, i)} }

\* C9: find_double_backslashes reports, for every maximal run of k
\* backslashes, floor(k/2) issues of length 2 at the run's 1st, 3rd, ...
\* backslash, left to right, no two covering a common offset, in math and
\* out of it.
C9_PairsOfEveryRun ==
    pc = "find_double_backslashes" =>
        /\ {results[k].index : k \in 1..Len(results)} = PairStarts(text)
        /\ Len(results) = Cardinality(PairStarts(text))
        /\ \A k \in 1..Len(results) :
              results[k].kind = "backslash" /\ results[k].length = 2
        /\ \A j, k \in 1..Len(results) :
              j < k => results[j].index + results[j].length <= results[k].index

\* a run of three backslashes inside a math region yields one issue
C9_Witness ==
    /\ pc = "find_double_backslashes"
    /\ Len(results) = 1
    /\ \E s \in Offsets(text) :
          RunStart(text, s) /\ RunLen(text, s) = 3 /\ s \in MathOffsets(text)

\* C10: the indexes of the list analyze_text returns increase strictly, and
\* the only issues the detectors report twice are punct issues.
C10_OneIssuePerOffset ==
    pc = "analyze_text" =>
        /\ \A k \in 1..(Len(issues) - 1) : issues[k].index < issues[k + 1].index
        /\ LET all == AllIssues(text)
           IN  \A j, k \in 1..Len(all) :
                   (j < k /\ all[j].kind = all[k].kind /\ all[j].index = all[k].index)
                       => all[j].kind = "punct"

\* a punct issue reported twice was removed, and issues of two kinds remain
C10_Witness ==
    /\ pc = "analyze_text"
    /\ Len(AllIssues(text)) > Len(issues)
    /\ \E j, k \in 1..Len(issues) : issues[j].kind # issues[k].kind

=============================================================================
